---- MODULE Spec2Model ----
(***************************************************************************)
(* BrainMatch Shapes - analytics integration (src/analytics-integration.js) *)
(*                                                                         *)
(* The script monkey-patches six global game functions.  Each wrapper runs *)
(* a hook inside try/catch (tracking state, reads of gameState, calls into *)
(* the analytics collaborator, console logging) and then calls the         *)
(* original function.  A page-level 'error' listener filters error events. *)
(*                                                                         *)
(* A wrapper call is one action.  Inside the action the hook is evaluated  *)
(* statement by statement on a context record m; m.thrown is the pending   *)
(* JavaScript exception, m.ev the ordered trace of everything the call did *)
(* that is visible outside the script.                                     *)
(***************************************************************************)
EXTENDS Integers, Sequences, FiniteSets, TLC

(***************************************************************************)
(* Bounds of the model.                                                    *)
(***************************************************************************)
MaxClock == 2      \* Date.now() ranges over 1..MaxClock
MaxTasks == 2      \* match hooks are explored while taskCounter < MaxTasks
MaxPieces == 3     \* an error message is made of at most MaxPieces fragments

(***************************************************************************)
(* JavaScript values.  null/undefined is Null, any other value v of an     *)
(* optional place is Some(v).                                              *)
(***************************************************************************)
Null == <<>>
Some(x) == <<x>>

Digit == <<"0", "1", "2", "3", "4", "5", "6", "7", "8", "9">>

RECURSIVE JSString(_)
\* String(n) / `${n}` of a non-negative integer: its decimal digits.
JSString(n) ==
  IF n < 10 THEN Digit[n + 1]
  ELSE JSString(n \div 10) \o Digit[(n % 10) + 1]

(***************************************************************************)
(* The environment: the game's state object, the clock, the callers.       *)
(***************************************************************************)
\* Campaign levels the game starts (one and two digits).
Levels == {1, 12}

\* How the game calls a wrapper and what the original function then does:
\* the receiver, the original's return value, and whether the original
\* clears gameState.flippedCards.
Calls ==
  { [this |-> "window", ret |-> "undefined", effect |-> "none"],
    [this |-> "obj", ret |-> "r1", effect |-> "clear"] }

\* Values the game's calculateXP returns.
XPValues == {0, 5}

\* A flipped card: null, an element without <img>, or an element whose
\* <img> has no alt, an empty alt or a label.
NullCard == [kind |-> "null", alt |-> Null]
NoImg == [kind |-> "noimg", alt |-> Null]
NoAlt == [kind |-> "img", alt |-> Null]
EmptyAlt == [kind |-> "img", alt |-> Some("")]
Circle == [kind |-> "img", alt |-> Some("circle")]
Star == [kind |-> "img", alt |-> Some("star")]

GameObject(flippedCards, turns, level) ==
  Some([flippedCards |-> flippedCards, turns |-> turns,
        currentCampaignLevel |-> level])

\* gameState: not defined (every read throws), or the game's object with
\* flippedCards undefined or an array of cards.
GameStates ==
  { Null,
    GameObject(Null, 0, 1),
    GameObject(Some(<<>>), 0, 1),
    GameObject(Some(<<>>), 10, 12),
    GameObject(Some(<<Circle>>), 0, 1),
    GameObject(Some(<<Circle, Star>>), 10, 12),
    GameObject(Some(<<NoImg, EmptyAlt>>), 0, 1),
    GameObject(Some(<<NoAlt, Circle>>), 10, 12),
    GameObject(Some(<<NullCard, Circle>>), 0, 1) }

VARIABLES
  levelStartTime,    \* line 27
  currentLevelId,    \* line 28
  currentGameMode,   \* line 29
  taskCounter,       \* line 30
  gameState,         \* the game's global state object
  clock,             \* the value Date.now() returns
  last,              \* the wrapper call the latest step made (NoCall: none)
  recorded,          \* history: recordTask calls issued since the last start hook
  startedId,         \* history: level id given to startLevel by the last start hook
  event              \* the most recent error event given to the listener

vars == <<levelStartTime, currentLevelId, currentGameMode, taskCounter,
          gameState, clock, last, recorded, startedId, event>>

(***************************************************************************)
(* Helper of the script.                                                   *)
(***************************************************************************)
getLevelId_dropsLevel(mode, level) ==
  IF mode = "campaign" THEN "campaign_level_"
  ELSE IF mode = "reflex" THEN "reflex_mode"
  ELSE "unknown"

getLevelId(mode, level) ==
  IF mode = "campaign" THEN "campaign_level_" \o JSString(level)
  ELSE IF mode = "reflex" THEN "reflex_mode"
  ELSE "unknown"

(***************************************************************************)
(* Statements of a hook, on the context record m.                          *)
(***************************************************************************)
\* One entry of a call's trace.  k is "read" (of gameState), "analytics",
\* "game" (calculateXP), "console" or "orig" (the original function).
Ev(k, fn, args, ret, threw, this) ==
  [k |-> k, fn |-> fn, args |-> args, ret |-> ret, threw |-> threw, this |-> this]

\* The context a wrapper call starts in.  throwAt = k > 0 makes the k-th
\* collaborator call of this hook throw; 0 lets all of them succeed.
Enter(throwAt) ==
  [ levelStartTime |-> levelStartTime,
    currentLevelId |-> currentLevelId,
    currentGameMode |-> currentGameMode,
    taskCounter |-> taskCounter,
    gameState |-> gameState,
    now |-> clock,
    throwAt |-> throwAt,
    ncalls |-> 0,
    thrown |-> FALSE,
    ev |-> <<>>,
    result |-> Null ]

\* A call into a collaborator (analytics.<fn>, calculateXP): recorded in
\* the trace; it throws when it is the throwAt-th one of this hook.
Collab(m, k, fn, args, ret) ==
  IF m.thrown THEN m
  ELSE LET n == m.ncalls + 1
           t == (n = m.throwAt)
       IN [m EXCEPT !.ncalls = n,
                    !.thrown = t,
                    !.ev = Append(@, Ev(k, fn, args, ret, t, Null))]

\* analytics.<fn>(args): its return value is not used
Analytics(m, fn, args) == Collab(m, "analytics", fn, args, Null)

\* console.log / console.error
Console(m, fn, tag) ==
  IF m.thrown THEN m
  ELSE [m EXCEPT !.ev = Append(@, Ev("console", fn, tag, Null, FALSE, Null))]

\* A read of gameState.<field>: throws when gameState is not defined.
ReadGameState(m, field) ==
  IF m.thrown THEN m
  ELSE IF m.gameState = Null THEN [m EXCEPT !.thrown = TRUE]
  ELSE [m EXCEPT !.ev = Append(@, Ev("read", field, Null, Null, FALSE, Null))]

Catch_rethrows(m, hook) == m

\* catch (error) { console.error(...) }: the exception ends here.
Catch(m, hook) ==
  IF m.thrown
    THEN Console([m EXCEPT !.thrown = FALSE], "error", hook)
    ELSE m

\* What the original game function does to gameState.
OrigEffect(gs, effect) ==
  IF effect = "clear" /\ gs # Null
    THEN Some([gs[1] EXCEPT !.flippedCards = Some(<<>>)])
    ELSE gs

CallOriginal_twice(m, fn, args, this, ret, effect) ==
  IF m.thrown THEN m
  ELSE [m EXCEPT !.ev = @ \o << Ev("orig", fn, args, Some(ret), FALSE, Some(this)),
                                Ev("orig", fn, args, Some(ret), FALSE, Some(this)) >>,
                 !.gameState = OrigEffect(@, effect),
                 !.result = Some(ret)]

\* return original<Fn>.call(this, ...args): not reached when an exception
\* is pending.
CallOriginal(m, fn, args, this, ret, effect) ==
  IF m.thrown THEN m
  ELSE [m EXCEPT !.ev = Append(@, Ev("orig", fn, args, Some(ret), FALSE, Some(this))),
                 !.gameState = OrigEffect(@, effect),
                 !.result = Some(ret)]

(***************************************************************************)
(* 3. Hook: start campaign level (lines 48-65).                            *)
(***************************************************************************)
StartGameTry(m, level) ==
  LET id == getLevelId("campaign", level)
      m1 == [m EXCEPT !.currentLevelId = Some(id),
                      !.currentGameMode = Some("campaign"),
                      !.levelStartTime = Some(m.now),
                      !.taskCounter = 0]
      m2 == Analytics(m1, "startLevel", <<m1.currentLevelId>>)
  IN Console(m2, "log", "Started Level")

startGame(m, level, this, ret, effect) ==
  CallOriginal(Catch(StartGameTry(m, level), "startGame"),
               "startGame", <<level>>, this, ret, effect)

(***************************************************************************)
(* 4. Hook: start reflex mode (lines 71-88).                               *)
(***************************************************************************)
StartReflexModeTry(m) ==
  LET id == getLevelId("reflex", Null)
      m1 == [m EXCEPT !.currentLevelId = Some(id),
                      !.currentGameMode = Some("reflex"),
                      !.levelStartTime = Some(m.now),
                      !.taskCounter = 0]
      m2 == Analytics(m1, "startLevel", <<m1.currentLevelId>>)
  IN Console(m2, "log", "Started Level")

startReflexMode(m, this, ret, effect) ==
  CallOriginal(Catch(StartReflexModeTry(m), "startReflexMode"),
               "startReflexMode", <<>>, this, ret, effect)

(***************************************************************************)
(* 5, 6. Hooks: correct and incorrect match (lines 94-129, 135-170).       *)
(***************************************************************************)
CardName_noFallback(card) ==
  IF card.kind = "noimg" \/ card.alt = Null THEN "" ELSE card.alt[1]

\* card.querySelector('img')?.alt || 'unknown', for a card that is an element
CardName(card) ==
  IF card.kind = "noimg" THEN "unknown"
  ELSE IF card.alt = Null \/ card.alt = Some("") THEN "unknown"
  ELSE card.alt[1]

\* card.querySelector throws a TypeError when the card is null
CardThrows(card) == card.kind = "null"

\* flippedCards && flippedCards.length === 2
TwoFlipped(flippedCards) ==
  flippedCards # Null /\ Len(flippedCards[1]) = 2

RecordTaskArgs(m, card1Name, card2Name) ==
  [ levelId |-> m.currentLevelId,
    taskId |-> "task_" \o JSString(m.taskCounter),
    label |-> "Match: " \o card1Name,
    value1 |-> card1Name,
    value2 |-> card2Name,
    timeTaken |-> 0,
    xpEarned |-> 0 ]

HandleCorrectMatchTry(m) ==
  LET m1 == ReadGameState(m, "flippedCards")
  IN IF m1.thrown THEN m1
     ELSE LET flippedCards == m1.gameState[1].flippedCards
          IN IF ~TwoFlipped(flippedCards) THEN m1
             ELSE LET card1 == flippedCards[1][1]
                      card2 == flippedCards[1][2]
                  IN IF CardThrows(card1) \/ CardThrows(card2)
                       THEN [m1 EXCEPT !.thrown = TRUE]
                       ELSE LET m2 == [m1 EXCEPT !.taskCounter = @ + 1]
                                m3 == Analytics(m2, "recordTask",
                                        RecordTaskArgs(m2, CardName(card1), CardName(card2)))
                            IN Console(m3, "log", "Task Recorded - Correct Match")

handleCorrectMatch_origFirst(m, this, ret, effect) ==
  Catch(HandleCorrectMatchTry(
          CallOriginal(m, "handleCorrectMatch", <<>>, this, ret, effect)),
        "handleCorrectMatch")

handleCorrectMatch(m, this, ret, effect) ==
  CallOriginal(Catch(HandleCorrectMatchTry(m), "handleCorrectMatch"),
               "handleCorrectMatch", <<>>, this, ret, effect)

HandleIncorrectMatchTry_incrementsAfter(m) ==
  LET m1 == ReadGameState(m, "flippedCards")
  IN IF m1.thrown THEN m1
     ELSE LET flippedCards == m1.gameState[1].flippedCards
          IN IF ~TwoFlipped(flippedCards) THEN m1
             ELSE LET card1 == flippedCards[1][1]
                      card2 == flippedCards[1][2]
                  IN IF CardThrows(card1) \/ CardThrows(card2)
                       THEN [m1 EXCEPT !.thrown = TRUE]
                       ELSE LET m2 == [m1 EXCEPT !.taskCounter = @ + 1]
                                m3 == Analytics(m1, "recordTask",
                                        RecordTaskArgs(m2, CardName(card1), CardName(card2)))
                            IN IF m3.thrown THEN m3
                               ELSE Console([m3 EXCEPT !.taskCounter = @ + 1],
                                            "log", "Task Recorded - Incorrect Match")

HandleIncorrectMatchTry(m) ==
  LET m1 == ReadGameState(m, "flippedCards")
  IN IF m1.thrown THEN m1
     ELSE LET flippedCards == m1.gameState[1].flippedCards
          IN IF ~TwoFlipped(flippedCards) THEN m1
             ELSE LET card1 == flippedCards[1][1]
                      card2 == flippedCards[1][2]
                  IN IF CardThrows(card1) \/ CardThrows(card2)
                       THEN [m1 EXCEPT !.thrown = TRUE]
                       ELSE LET m2 == [m1 EXCEPT !.taskCounter = @ + 1]
                                m3 == Analytics(m2, "recordTask",
                                        RecordTaskArgs(m2, CardName(card1), CardName(card2)))
                            IN Console(m3, "log", "Task Recorded - Incorrect Match")

handleIncorrectMatch(m, this, ret, effect) ==
  CallOriginal(Catch(HandleIncorrectMatchTry(m), "handleIncorrectMatch"),
               "handleIncorrectMatch", <<>>, this, ret, effect)

(***************************************************************************)
(* 7. Hook: campaign win (lines 176-207).                                  *)
(***************************************************************************)
TimeTaken_noGuard(m) ==
  IF m.levelStartTime = Null THEN m.now ELSE m.now - m.levelStartTime[1]

\* levelStartTime ? Date.now() - levelStartTime : 0
TimeTaken(m) ==
  IF m.levelStartTime # Null /\ m.levelStartTime[1] # 0
    THEN m.now - m.levelStartTime[1]
    ELSE 0

EndLevelArgs(levelId, success, timeTaken, xp) ==
  [levelId |-> levelId, success |-> success, timeTaken |-> timeTaken, xp |-> xp]

HandleCampaignWinTry_resets(m, xpResult) ==
  LET m1 == ReadGameState(ReadGameState(m, "currentCampaignLevel"), "turns")
  IN IF m1.thrown THEN m1
     ELSE LET level == m1.gameState[1].currentCampaignLevel
              turns == m1.gameState[1].turns
              timeTaken == TimeTaken(m1)
              xp == xpResult
              m2 == Collab(m1, "game", "calculateXP", <<level, turns>>, Some(xp))
              m3 == Analytics(m2, "endLevel",
                              EndLevelArgs(m2.currentLevelId, TRUE, timeTaken, xp))
              m4 == Analytics(m3, "addRawMetric", <<"level", JSString(level)>>)
              m5 == Analytics(m4, "addRawMetric", <<"turns", JSString(turns)>>)
              m6 == Analytics(m5, "addRawMetric", <<"xp_earned", JSString(xp)>>)
              m7 == Analytics(m6, "addRawMetric", <<"time_ms", JSString(timeTaken)>>)
              m8 == Analytics(m7, "submitReport", <<>>)
              m9 == IF m8.thrown THEN m8
                    ELSE [m8 EXCEPT !.taskCounter = 0, !.levelStartTime = Null]
          IN Console(Console(m9, "log", "Completed Level"), "log", "Report submitted")

\* xpResult is what the game's calculateXP(level, turns) returns.
HandleCampaignWinTry(m, xpResult) ==
  LET m1 == ReadGameState(ReadGameState(m, "currentCampaignLevel"), "turns")
  IN IF m1.thrown THEN m1
     ELSE LET level == m1.gameState[1].currentCampaignLevel
              turns == m1.gameState[1].turns
              timeTaken == TimeTaken(m1)
              xp == xpResult
              m2 == Collab(m1, "game", "calculateXP", <<level, turns>>, Some(xp))
              m3 == Analytics(m2, "endLevel",
                              EndLevelArgs(m2.currentLevelId, TRUE, timeTaken, xp))
              m4 == Analytics(m3, "addRawMetric", <<"level", JSString(level)>>)
              m5 == Analytics(m4, "addRawMetric", <<"turns", JSString(turns)>>)
              m6 == Analytics(m5, "addRawMetric", <<"xp_earned", JSString(xp)>>)
              m7 == Analytics(m6, "addRawMetric", <<"time_ms", JSString(timeTaken)>>)
              m8 == Analytics(m7, "submitReport", <<>>)
          IN Console(Console(m8, "log", "Completed Level"), "log", "Report submitted")

handleCampaignWin(m, xpResult, this, ret, effect) ==
  CallOriginal(Catch(HandleCampaignWinTry(m, xpResult), "handleCampaignWin"),
               "handleCampaignWin", <<>>, this, ret, effect)

(***************************************************************************)
(* 8. Hook: reflex mode end (lines 213-239).                               *)
(***************************************************************************)
HandleReflexModeEndTry_submitsFirst(m) ==
  LET m1 == ReadGameState(m, "turns")
  IN IF m1.thrown THEN m1
     ELSE LET turns == m1.gameState[1].turns
              timeTaken == TimeTaken(m1)
              m2 == Analytics(m1, "endLevel",
                              EndLevelArgs(m1.currentLevelId, TRUE, timeTaken, 0))
              m3 == Analytics(m2, "submitReport", <<>>)
              m4 == Analytics(m3, "addRawMetric", <<"mode", "reflex">>)
              m5 == Analytics(m4, "addRawMetric", <<"total_moves", JSString(turns)>>)
              m6 == Analytics(m5, "addRawMetric", <<"time_ms", JSString(timeTaken)>>)
          IN Console(Console(m6, "log", "Completed Level"), "log", "Report submitted")

HandleReflexModeEndTry(m) ==
  LET m1 == ReadGameState(m, "turns")
  IN IF m1.thrown THEN m1
     ELSE LET turns == m1.gameState[1].turns
              timeTaken == TimeTaken(m1)
              m2 == Analytics(m1, "endLevel",
                              EndLevelArgs(m1.currentLevelId, TRUE, timeTaken, 0))
              m3 == Analytics(m2, "addRawMetric", <<"mode", "reflex">>)
              m4 == Analytics(m3, "addRawMetric", <<"total_moves", JSString(turns)>>)
              m5 == Analytics(m4, "addRawMetric", <<"time_ms", JSString(timeTaken)>>)
              m6 == Analytics(m5, "submitReport", <<>>)
          IN Console(Console(m6, "log", "Completed Level"), "log", "Report submitted")

handleReflexModeEnd(m, this, ret, effect) ==
  CallOriginal(Catch(HandleReflexModeEndTry(m), "handleReflexModeEnd"),
               "handleReflexModeEnd", <<>>, this, ret, effect)

(***************************************************************************)
(* The state machine of the six wrappers.                                  *)
(***************************************************************************)
\* Number of entries of trace ev that are calls of analytics.<fn>.
RECURSIVE CountCalls(_, _)
CountCalls(ev, fn) ==
  IF ev = <<>> THEN 0
  ELSE (IF Head(ev).k = "analytics" /\ Head(ev).fn = fn THEN 1 ELSE 0)
       + CountCalls(Tail(ev), fn)

\* The state a wrapper call leaves: the script's variables, the game state
\* after the original function ran, and the record of the call.
Commit(m, fn, args, this) ==
  /\ levelStartTime' = m.levelStartTime
  /\ currentLevelId' = m.currentLevelId
  /\ currentGameMode' = m.currentGameMode
  /\ taskCounter' = m.taskCounter
  /\ gameState' = m.gameState
  /\ last' = [ fn |-> fn, args |-> args, this |-> this, ev |-> m.ev,
               threw |-> m.thrown, result |-> m.result,
               pre |-> gameState, now |-> clock,
               preTracking |-> <<levelStartTime, currentLevelId,
                                 currentGameMode, taskCounter>> ]
  /\ UNCHANGED <<clock, event>>

NoCall ==
  [ fn |-> "none", args |-> <<>>, this |-> "window", ev |-> <<>>,
    threw |-> FALSE, result |-> Null, pre |-> Null, now |-> 1,
    preTracking |-> <<Null, Null, Null, 0>> ]

NoEvent == [message |-> Null, defaultPrevented |-> FALSE, warned |-> FALSE]

Init ==
  /\ levelStartTime = Null
  /\ currentLevelId = Null
  /\ currentGameMode = Null
  /\ taskCounter = 0
  /\ gameState \in GameStates
  /\ clock = 1
  /\ last = NoCall
  /\ recorded = 0
  /\ startedId = Null
  /\ event = NoEvent

StartGame ==
  \E level \in Levels, c \in Calls, throwAt \in 0..1 :
    LET m == startGame(Enter(throwAt), level, c.this, c.ret, c.effect)
    IN /\ Commit(m, "startGame", <<level>>, c.this)
       /\ recorded' = 0
       /\ startedId' = m.ev[1].args[1]

StartReflexMode ==
  \E c \in Calls, throwAt \in 0..1 :
    LET m == startReflexMode(Enter(throwAt), c.this, c.ret, c.effect)
    IN /\ Commit(m, "startReflexMode", <<>>, c.this)
       /\ recorded' = 0
       /\ startedId' = m.ev[1].args[1]

HandleCorrectMatch ==
  /\ taskCounter < MaxTasks
  /\ \E c \in Calls, throwAt \in 0..1 :
       LET m == handleCorrectMatch(Enter(throwAt), c.this, c.ret, c.effect)
       IN /\ Commit(m, "handleCorrectMatch", <<>>, c.this)
          /\ recorded' = recorded + CountCalls(m.ev, "recordTask")
          /\ UNCHANGED startedId

HandleIncorrectMatch ==
  /\ taskCounter < MaxTasks
  /\ \E c \in Calls, throwAt \in 0..1 :
       LET m == handleIncorrectMatch(Enter(throwAt), c.this, c.ret, c.effect)
       IN /\ Commit(m, "handleIncorrectMatch", <<>>, c.this)
          /\ recorded' = recorded + CountCalls(m.ev, "recordTask")
          /\ UNCHANGED startedId

HandleCampaignWin ==
  \E xp \in XPValues, c \in Calls, throwAt \in 0..7 :
    LET m == handleCampaignWin(Enter(throwAt), xp, c.this, c.ret, c.effect)
    IN /\ Commit(m, "handleCampaignWin", <<>>, c.this)
       /\ UNCHANGED <<recorded, startedId>>

HandleReflexModeEnd ==
  \E c \in Calls, throwAt \in 0..5 :
    LET m == handleReflexModeEnd(Enter(throwAt), c.this, c.ret, c.effect)
    IN /\ Commit(m, "handleReflexModeEnd", <<>>, c.this)
       /\ UNCHANGED <<recorded, startedId>>

\* The game's own code, between wrapper calls, changes its state object.
GameStep ==
  /\ gameState' \in GameStates
  /\ last' = NoCall
  /\ UNCHANGED <<levelStartTime, currentLevelId, currentGameMode, taskCounter,
                 clock, recorded, startedId, event>>

\* Time passes.  Date.now() is a positive number of milliseconds, so a
\* stored levelStartTime is never 0 (falsy).
Tick ==
  /\ clock < MaxClock
  /\ clock' = clock + 1
  /\ last' = NoCall
  /\ UNCHANGED <<levelStartTime, currentLevelId, currentGameMode, taskCounter,
                 gameState, recorded, startedId, event>>

Next ==
  \/ StartGame
  \/ StartReflexMode
  \/ HandleCorrectMatch
  \/ HandleIncorrectMatch
  \/ HandleCampaignWin
  \/ HandleReflexModeEnd
  \/ GameStep
  \/ Tick

Spec == Init /\ [][Next]_vars

(***************************************************************************)
(* 9. Graceful degradation: the page-level 'error' listener (lines         *)
(* 246-251).  A message is a sequence of characters.  The listener shares  *)
(* no state with the wrappers, so it has a specification of its own.       *)
(***************************************************************************)
RECURSIVE Chars(_)
\* the characters of a message made of the given fragments
Chars(pieces) ==
  IF pieces = <<>> THEN <<>> ELSE Head(pieces) \o Chars(Tail(pieces))

Fragments ==
  { <<"A">>, <<"a">>, <<"x">>,
    <<"n", "a", "l", "y", "t", "i", "c">>,
    <<"n", "a", "l", "y", "t", "i", "c", "s">> }

\* event.message: undefined, or a string (the empty one included)
Messages ==
  { Null } \cup
  { Some(Chars(p)) : p \in UNION { [1..n -> Fragments] : n \in 0..MaxPieces } }

\* the literal 'Analytics' of line 247
Needle == <<"A", "n", "a", "l", "y", "t", "i", "c", "s">>

LowerCase(c) == IF c = "A" THEN "a" ELSE c

Includes_ignoresCase(s, needle) ==
  \E i \in 0..(Len(s) - Len(needle)) :
    \A k \in 1..Len(needle) : LowerCase(s[i + k]) = LowerCase(needle[k])

\* String.prototype.includes
Includes(s, needle) ==
  \E i \in 0..(Len(s) - Len(needle)) :
    SubSeq(s, i + 1, i + Len(needle)) = needle

\* the listener's body, on the event it is given
ErrorListener(e) ==
  IF e.message # Null /\ e.message # Some(<<>>) /\ Includes(e.message[1], Needle)
    THEN [e EXCEPT !.warned = TRUE, !.defaultPrevented = TRUE]
    ELSE e

\* An uncaught error reaches the window: the listener runs on its event.
DispatchError ==
  /\ \E msg \in Messages :
       event' = ErrorListener([message |-> msg, defaultPrevented |-> FALSE,
                               warned |-> FALSE])
  /\ UNCHANGED <<levelStartTime, currentLevelId, currentGameMode, taskCounter,
                 gameState, clock, last, recorded, startedId>>

SpecError == Init /\ [][DispatchError]_vars

(***************************************************************************)
(* Properties.  They read the record of the latest wrapper call (last),    *)
(* the script's variables after it, and the listener's event.              *)
(***************************************************************************)
Trace == last.ev
StartFns == {"startGame", "startReflexMode"}
MatchFns == {"handleCorrectMatch", "handleIncorrectMatch"}
EndFns == {"handleCampaignWin", "handleReflexModeEnd"}
Wrapped == StartFns \cup MatchFns \cup EndFns

OrigIdx == { i \in 1..Len(Trace) : Trace[i].k = "orig" }
CallIdx(fn) == { i \in 1..Len(Trace) : Trace[i].k = "analytics" /\ Trace[i].fn = fn }
ThrewIdx == { i \in 1..Len(Trace) : Trace[i].threw }
AnalyticsThrew == \E i \in ThrewIdx : Trace[i].k = "analytics"
Tracking == <<levelStartTime, currentLevelId, currentGameMode, taskCounter>>

\* the display label of a card as the claims describe it
Label(card) ==
  IF card.kind = "img" /\ card.alt # Null /\ card.alt # Some("")
    THEN card.alt[1] ELSE "unknown"

\* the game state before the call held exactly two card elements
TwoCardsBefore ==
  /\ last.pre # Null
  /\ last.pre[1].flippedCards # Null
  /\ Len(last.pre[1].flippedCards[1]) = 2
  /\ \A j \in 1..2 : last.pre[1].flippedCards[1][j].kind # "null"

C2_ErrorsSwallowed ==
  (last.fn \in Wrapped /\ AnalyticsThrew) =>
    /\ ~last.threw
    /\ \E i \in OrigIdx : last.result = Trace[i].ret
    /\ \A i \in OrigIdx : last.result = Trace[i].ret

\* recordTask threw in a match hook and the wrapper returned "r1".
C2_Witness ==
  /\ last.fn = "handleCorrectMatch"
  /\ \E i \in CallIdx("recordTask") : Trace[i].threw
  /\ last.result = Some("r1")

\* C3: taskCounter is the number of recordTask calls issued since the most
\* recent start hook; a match hook adds exactly the number of recordTask
\* calls it issued (0 or 1); a start hook sets it to 0, also when startLevel
\* throws.
C3_TaskCounter ==
  /\ taskCounter = recorded
  /\ last.fn \in MatchFns =>
       /\ Cardinality(CallIdx("recordTask")) <= 1
       /\ taskCounter = last.preTracking[4] + Cardinality(CallIdx("recordTask"))
  /\ last.fn \in StartFns => taskCounter = 0

\* The second recorded outcome of a level, whose recordTask threw.
C3_Witness ==
  /\ last.fn = "handleIncorrectMatch"
  /\ AnalyticsThrew
  /\ taskCounter = 2
  /\ recorded = 2

MetricsOf(fn) == IF fn = "handleCampaignWin" THEN 4 ELSE 3

C5_LevelId ==
  last.fn \in StartFns =>
    /\ Cardinality(CallIdx("startLevel")) = 1
    /\ \A i \in CallIdx("startLevel") :
         Trace[i].args =
           IF last.fn = "startGame"
             THEN << Some("campaign_level_" \o ToString(last.args[1])) >>
             ELSE << Some("reflex_mode") >>

\* startGame(12) after a reflex level passed "campaign_level_12".
C5_Witness ==
  /\ last.fn = "startGame"
  /\ last.args = <<12>>
  /\ last.preTracking[3] = Some("reflex")
  /\ \E i \in CallIdx("startLevel") : Trace[i].args = << Some("campaign_level_12") >>

\* the task record a match hook is to submit, from the cards before the call
ExpectedTask ==
  LET cards == last.pre[1].flippedCards[1]
  IN [ levelId |-> last.preTracking[2],
       taskId |-> "task_" \o ToString(last.preTracking[4] + 1),
       label |-> "Match: " \o Label(cards[1]),
       value1 |-> Label(cards[1]),
       value2 |-> Label(cards[2]),
       timeTaken |-> 0,
       xpEarned |-> 0 ]

\* C6 as claimed: every match hook call submits one task record built from
\* the two flipped cards.
C6_AlwaysRecords ==
  last.fn \in MatchFns => Cardinality(CallIdx("recordTask")) = 1

\* C6 amended: a match hook call made while gameState.flippedCards holds
\* exactly two card elements submits one task record: task id "task_" and
\* the counter after the increment, the two labels with "unknown" for a
\* label that is unavailable, 0 for timeTaken and xpEarned; any other match
\* hook call submits no record.
C6_RecordsTwoCards ==
  last.fn \in MatchFns =>
    /\ TwoCardsBefore =>
         /\ Cardinality(CallIdx("recordTask")) = 1
         /\ \A i \in CallIdx("recordTask") : Trace[i].args = ExpectedTask
    /\ ~TwoCardsBefore => CallIdx("recordTask") = {}

\* A record with the sentinel for both labels (no img, empty alt).
C6_Witness ==
  /\ last.fn \in MatchFns
  /\ TwoCardsBefore
  /\ \E i \in CallIdx("recordTask") :
       /\ Trace[i].args.value1 = "unknown"
       /\ Trace[i].args.value2 = "unknown"
       /\ Trace[i].args.taskId = "task_2"

\* elapsed time as the claims describe it
Elapsed ==
  IF last.preTracking[1] = Null THEN 0 ELSE last.now - last.preTracking[1][1]

\* the calculateXP(level, turns) call made before trace entry i, if any
XPCalls(i) ==
  { j \in 1..(i - 1) :
      /\ Trace[j].k = "game"
      /\ Trace[j].fn = "calculateXP"
      /\ Trace[j].args = << last.pre[1].currentCampaignLevel, last.pre[1].turns >> }

\* C7 as claimed: every endLevel call of an end-of-level hook has success,
\* the elapsed time, and the xp that calculateXP(level, turns) returned.
C7_XPAlwaysComputed ==
  last.fn \in EndFns =>
    \A i \in CallIdx("endLevel") :
      /\ Trace[i].args.success = TRUE
      /\ Trace[i].args.timeTaken = Elapsed
      /\ \E j \in XPCalls(i) : Trace[j].ret = Some(Trace[i].args.xp)

\* C7 amended: every endLevel call of an end-of-level hook has success =
\* true and timeTaken = clock now minus the clock stored by the most recent
\* start hook (0 if none); xp is the result of calculateXP(level, turns) in
\* handleCampaignWin and 0 in handleReflexModeEnd, which calls no
\* calculateXP.
C7_EndLevelArgs ==
  last.fn \in EndFns =>
    \A i \in CallIdx("endLevel") :
      /\ Trace[i].args.success = TRUE
      /\ Trace[i].args.timeTaken = Elapsed
      /\ last.fn = "handleCampaignWin" =>
           \E j \in XPCalls(i) : Trace[j].ret = Some(Trace[i].args.xp)
      /\ last.fn = "handleReflexModeEnd" =>
           /\ Trace[i].args.xp = 0
           /\ \A j \in 1..Len(Trace) : Trace[j].k # "game"

\* A campaign win, one tick after the level started, reported xp 5.
C7_Witness ==
  /\ last.fn = "handleCampaignWin"
  /\ \E i \in CallIdx("endLevel") :
       /\ Trace[i].args.xp = 5
       /\ Trace[i].args.timeTaken = 1

\* a message "mentions the analytics subsystem": it contains the word
\* analytics, in any letter case
Mentions(msg) ==
  /\ msg # Null
  /\ \E i \in 0..(Len(msg[1]) - Len(Needle)) :
       \A k \in 1..Len(Needle) : LowerCase(msg[1][i + k]) = LowerCase(Needle[k])

\* a message contains the exact text 'Analytics'
HasTag(msg) ==
  /\ msg # Null
  /\ \E i \in 1..Len(msg[1]) :
       \A k \in 1..Len(Needle) :
         i + k - 1 <= Len(msg[1]) /\ msg[1][i + k - 1] = Needle[k]

\* C8 as claimed: the listener calls preventDefault on exactly the error
\* events whose message mentions the analytics subsystem.
C8_SuppressesMentions ==
  event.defaultPrevented <=> Mentions(event.message)

\* C8 amended: the listener calls preventDefault on exactly the error
\* events whose message contains the text 'Analytics' in that letter case;
\* every other event (no message, or 'analytics' in another case) is left
\* untouched.
C8_SuppressesTagged ==
  /\ event.defaultPrevented <=> HasTag(event.message)
  /\ event.warned <=> HasTag(event.message)

\* "xAnalytics" was suppressed.
C8_Witness ==
  /\ event.message = Some(<<"x">> \o Needle)
  /\ event.defaultPrevented

\* C9: in a wrapper call every read of gameState and every collaborator
\* call comes before the call of the original function, and the payload is
\* that of the game state before the call whatever the original does to it.
C9_HookBeforeOriginal ==
  last.fn \in Wrapped =>
    /\ \A i \in 1..Len(Trace) : \A o \in OrigIdx :
         Trace[i].k \in {"read", "analytics", "game"} => i < o
    /\ \A i \in CallIdx("recordTask") :
         /\ TwoCardsBefore
         /\ Trace[i].args.value1 = Label(last.pre[1].flippedCards[1][1])
         /\ Trace[i].args.value2 = Label(last.pre[1].flippedCards[1][2])
    /\ \A i \in CallIdx("endLevel") :
         \A j \in CallIdx("addRawMetric") :
           Trace[j].args[1] \in {"turns", "total_moves"} =>
             Trace[j].args[2] = ToString(last.pre[1].turns)

\* The original cleared the flipped cards; the record still names them.
C9_Witness ==
  /\ last.fn = "handleCorrectMatch"
  /\ gameState # Null
  /\ gameState[1].flippedCards = Some(<<>>)
  /\ \E i \in CallIdx("recordTask") :
       Trace[i].args.value1 = "circle" /\ Trace[i].args.value2 = "star"

\* C10: every recordTask and endLevel call carries the level id computed by
\* the most recent start hook (null if none); only the start hooks change
\* currentLevelId, currentGameMode and levelStartTime; an end-of-level hook
\* changes no tracking variable, so the counter continues after it.
C10_OnlyStartsReset ==
  /\ currentLevelId = startedId
  /\ \A i \in CallIdx("recordTask") \cup CallIdx("endLevel") :
       Trace[i].args.levelId = startedId
  /\ last.fn \in EndFns => Tracking = last.preTracking
  /\ last.fn \in MatchFns =>
       /\ levelStartTime = last.preTracking[1]
       /\ currentLevelId = last.preTracking[2]
       /\ currentGameMode = last.preTracking[3]

\* A campaign win after two recorded outcomes left the counter at 2.
C10_Witness ==
  /\ last.fn = "handleCampaignWin"
  /\ CallIdx("submitReport") # {}
  /\ taskCounter = 2
  /\ currentLevelId = Some("campaign_level_1")

====
